---------------------------- MODULE Spec2Model ----------------------------
(***************************************************************************)
(* A model of src/src/dashboard.py, the SideEffectNet dashboard script.    *)
(*                                                                         *)
(* The script is run top to bottom: it loads the two tables, builds the    *)
(* relationship graph and the two lookup maps, and then evaluates the tabs *)
(* in order.  A user interaction changes one widget value and runs the     *)
(* script again.  An uncaught exception ends the run where it is raised.   *)
(* The tables, the graph and the result of compute_centrality are kept by  *)
(* st.cache_data for all sessions of the server until the cache is         *)
(* cleared; st.session_state["centrality"] is kept by one session.         *)
(*                                                                         *)
(* Conventions of the model                                                *)
(*  - a string is the sequence of its character codes, so that str.strip   *)
(*    and the ordering of strings are computed and not assumed;            *)
(*  - a risk score is counted in tenths (0.7 is 7); sums and differences   *)
(*    are exact and a quotient is kept as the pair (numerator,             *)
(*    denominator): binary floating point rounding is not modelled;        *)
(*  - nx.betweenness_centrality is computed from the shortest paths of the *)
(*    graph, with the normalisation of a directed graph; its k sampled     *)
(*    sources are any k nodes, since the script passes no seed;            *)
(*  - a widget's value is an input of the script.  The script does not     *)
(*    rely on the value being one of the options it offered: it tests      *)
(*    `drug not in risk_map` (line 564) and reads risk_map.get(d, 0)       *)
(*    (line 758).  The inputs therefore range over all names of the model. *)
(***************************************************************************)
EXTENDS Integers, Sequences, FiniteSets, TLC

VARIABLES
    pc,                  \* "start": no session, nothing cached; "ready": a session
                         \* after a run; "cleared": a session after the cache was
                         \* cleared; "closed": no session, the cache still filled
    EDGE_CSV,            \* data/processed/side_effects_clean.csv : [exists, rows]
    RISK_CSV,            \* data/processed/drug_risk_scores.csv   : [exists, rows]
    edges_df,            \* the loaded edge table  [columns, rows]
    risk_df,             \* the loaded risk table  [columns, rows]
    G,                   \* the relationship graph [nodes, type, edges]
    risk_map,            \* drug_name -> risk_score
    side_effect_lookup,  \* drug_name -> list of side effects
    drug,                \* value of the tab 1 selectbox ("" is the empty sequence)
    selected_drugs,      \* value of the tab 4 multiselect
    tab1,                \* what tab 1 rendered
    tab2,                \* what tab 2 rendered
    tab4,                \* what tab 4 rendered
    raised,              \* the exception that ended the last run, or "none"
    risk_filter,         \* value of the sidebar slider << low, high >>
    drug_a,              \* value of the first selectbox of tab 6
    drug_b,              \* value of the second selectbox of tab 6
    centrality,          \* st.session_state["centrality"]
    centrality_cache,    \* the st.cache_data entry of compute_centrality
    computed,            \* the last two executions of the body of
                         \* compute_centrality: graph and mapping returned
    tab1_network,        \* the edges tab 1 drew in its second column
    tab3,                \* what tab 3 rendered
    tab5,                \* what tab 5 rendered
    tab6                 \* what tab 6 rendered

vars == << pc, EDGE_CSV, RISK_CSV, edges_df, risk_df, G, risk_map,
           side_effect_lookup, drug, selected_drugs, tab1, tab2, tab4, raised,
           risk_filter, drug_a, drug_b, centrality, centrality_cache, computed,
           tab1_network, tab3, tab5, tab6 >>

---------------------------------------------------------------------------
(* Strings                                                                 *)

SPACE == 32

\* The names the datasets of the model are written with.
Str_a == << 97 >>

Str_b == << 98 >>

Str_c == << 99 >>

Str_x == << 120 >>

Str_y == << 121 >>

\* The empty string, the value of a selectbox with nothing chosen.
EmptyStr == << >>

RECURSIVE lstrip(_)
lstrip(s) == IF s # << >> /\ Head(s) = SPACE THEN lstrip(Tail(s)) ELSE s

RECURSIVE rstrip(_)
rstrip(s) ==
    IF s # << >> /\ s[Len(s)] = SPACE THEN rstrip(SubSeq(s, 1, Len(s) - 1)) ELSE s

\* str.strip(): surrounding white space removed.
strip(s) == rstrip(lstrip(s))

\* s < t for Python strings: lexicographic by character code.
RECURSIVE StrLess(_, _)
StrLess(s, t) ==
    IF t = << >> THEN FALSE
    ELSE IF s = << >> THEN TRUE
    ELSE IF Head(s) # Head(t) THEN Head(s) < Head(t)
    ELSE StrLess(Tail(s), Tail(t))

\* sorted(S) for a set of strings.
RECURSIVE SortedStrs(_)
SortedStrs(S) ==
    IF S = {} THEN << >>
    ELSE LET m == CHOOSE x \in S : \A y \in S \ {x} : StrLess(x, y)
         IN  << m >> \o SortedStrs(S \ {m})

\* The elements of a sequence.
Range(s) == { s[i] : i \in DOMAIN s }

\* d[k] := v on a dict modelled as a function.
DictSet(d, k, v) == [ x \in (DOMAIN d) \cup {k} |-> IF x = k THEN v ELSE d[x] ]

\* d.get(k, default)
DictGet(d, k, default) == IF k \in DOMAIN d THEN d[k] ELSE default

EmptyDict == [ x \in {} |-> 0 ]

---------------------------------------------------------------------------
(* Frequencies                                                             *)

\* Cells of the freq_pct column as pandas hands them to build_graph:
\* a number, NaN for a missing cell, or a text that is no number.
FreqNum(n) == [ t |-> "num", v |-> n ]

FreqMissing == [ t |-> "nan", v |-> 0 ]

FreqText == [ t |-> "text", v |-> 0 ]

\* What an edge stores: a float (NaN included) or the string "N/A".
FloatOf(n) == [ t |-> "float", v |-> n ]

FloatNaN == [ t |-> "float_nan", v |-> 0 ]

NA == [ t |-> "N/A", v |-> 0 ]

\* try: freq = float(freq_raw)  except (ValueError, TypeError): freq = "N/A"
\* float() of a number is the number, float(nan) is nan and raises nothing,
\* float() of a text that is no number raises ValueError.
ParseFreq(freq_raw) ==
    IF freq_raw.t = "num" THEN FloatOf(freq_raw.v)
    ELSE IF freq_raw.t = "nan" THEN FloatNaN
    ELSE NA

---------------------------------------------------------------------------
(* Tables                                                                  *)

EdgeColumns == << "drug_name", "side_effect", "freq_pct" >>

RiskColumns == << "drug_name", "risk_score" >>

EdgeRow(d, s, f) == [ drug_name |-> d, side_effect |-> s, freq_pct |-> f ]

RiskRow(d, r) == [ drug_name |-> d, risk_score |-> r ]

DataFrame(cols, rows) == [ columns |-> cols, rows |-> rows ]

\* df.head(n) as it would be without the cap.
DfHead_all(df, n) == df

\* df.head(n)
DfHead(df, n) ==
    DataFrame(df.columns, SubSeq(df.rows, 1, IF Len(df.rows) < n THEN Len(df.rows) ELSE n))

\* All sequences over S of length at most n.
RECURSIVE SeqsUpTo(_, _)
SeqsUpTo(S, n) ==
    IF n = 0 THEN { << >> }
    ELSE LET shorter == SeqsUpTo(S, n - 1)
         IN  shorter \cup { Append(q, e) : q \in { r \in shorter : Len(r) = n - 1 }, e \in S }

\* load_data(): empty frames when a file is missing, else the two files.
load_data(edge_csv, risk_csv) ==
    IF ~edge_csv.exists \/ ~risk_csv.exists
    THEN << DataFrame(EdgeColumns, << >>), DataFrame(RiskColumns, << >>) >>
    ELSE << DataFrame(EdgeColumns, edge_csv.rows), DataFrame(RiskColumns, risk_csv.rows) >>

---------------------------------------------------------------------------
(* The relationship graph                                                  *)

\* nx.DiGraph(): nodes in insertion order, a type per node, a frequency per edge.
EmptyGraph == [ nodes |-> << >>, type |-> EmptyDict, edges |-> EmptyDict ]

\* G.add_node(n, type=kind): a new node is appended, an existing node has its
\* attributes overwritten.
add_node(g, n, kind) ==
    [ g EXCEPT !.nodes = IF n \in Range(g.nodes) THEN g.nodes ELSE Append(g.nodes, n),
               !.type = DictSet(g.type, n, kind) ]

\* add_edge as it would be if an existing edge kept its attributes.
add_edge_keep_first(g, u, v, freq) ==
    IF << u, v >> \in DOMAIN g.edges THEN g
    ELSE [ g EXCEPT !.edges = DictSet(g.edges, << u, v >>, freq) ]

\* G.add_edge(u, v, frequency=freq): an existing edge has its attributes overwritten.
add_edge(g, u, v, freq) == [ g EXCEPT !.edges = DictSet(g.edges, << u, v >>, freq) ]

\* The body of the loop of build_graph for one row.
AddRow(g, row) ==
    LET d  == strip(row.drug_name)
        se == strip(row.side_effect)
        freq == ParseFreq(row.freq_pct)
        g1 == add_node(g, d, "drug")
        g2 == add_node(g1, se, "side_effect")
    IN  add_edge(g2, d, se, freq)

RECURSIVE BuildFrom(_, _, _)
BuildFrom(g, rows, i) ==
    IF i > Len(rows) THEN g ELSE BuildFrom(AddRow(g, rows[i]), rows, i + 1)

build_graph(df) == BuildFrom(EmptyGraph, df.rows, 1)

\* G.has_edge(u, v)
has_edge(g, u, v) == << u, v >> \in DOMAIN g.edges

---------------------------------------------------------------------------
(* The lookup maps                                                         *)

\* risk_df.set_index("drug_name")["risk_score"].to_dict(): the last row of a
\* drug wins; {} when the table is empty.
RECURSIVE RiskDictFrom(_, _, _)
RiskDictFrom(d, rows, i) ==
    IF i > Len(rows) THEN d
    ELSE RiskDictFrom(DictSet(d, rows[i].drug_name, rows[i].risk_score), rows, i + 1)

build_risk_map(df) == IF df.rows = << >> THEN EmptyDict ELSE RiskDictFrom(EmptyDict, df.rows, 1)

\* list(group["side_effect"]) for the group of one drug: its rows in table order.
RECURSIVE GroupEffects(_, _, _)
GroupEffects(rows, d, i) ==
    IF i > Len(rows) THEN << >>
    ELSE (IF rows[i].drug_name = d THEN << rows[i].side_effect >> ELSE << >>)
         \o GroupEffects(rows, d, i + 1)

\* {drug: list(group["side_effect"]) for drug, group in edges_df.groupby("drug_name")}
build_lookup(df) ==
    [ d \in { df.rows[i].drug_name : i \in DOMAIN df.rows } |-> GroupEffects(df.rows, d, 1) ]

\* side_effect_lookup.items(): groupby yields the groups in sorted key order.
LookupKeys(lookup) == SortedStrs(DOMAIN lookup)


---------------------------------------------------------------------------
(* Tab 1 - Drug Lookup                                                     *)

\* list(dict.fromkeys(l)): duplicates removed, first-seen order kept.
RECURSIVE DedupFrom(_, _, _)
DedupFrom(acc, l, i) ==
    IF i > Len(l) THEN acc
    ELSE DedupFrom(IF l[i] \in Range(acc) THEN acc ELSE Append(acc, l[i]), l, i + 1)

\* dedup as it would be if duplicates were kept.
dedup_keeps_duplicates(l) == l

dedup(l) == DedupFrom(<< >>, l, 1)

Tab1Idle == [ status |-> "idle", score |-> 0, se_list |-> << >> ]

\* Lines 563-586: nothing for the empty selection, st.error for a drug that is
\* not in risk_map, else the score and the de-duplicated side effects.
Tab1(rm, lookup, d) ==
    IF d = EmptyStr THEN Tab1Idle
    ELSE IF d \notin DOMAIN rm
         THEN [ status |-> "not_found", score |-> 0, se_list |-> << >> ]
         ELSE [ status |-> "profile", score |-> rm[d],
                se_list |-> dedup(DictGet(lookup, d, << >>)) ]

---------------------------------------------------------------------------
(* Tab 2 - Safer Alternatives                                              *)

Suggestion(other, overlap, risk_other, reduction) ==
    [ Drug |-> other, SharedEffects |-> overlap, RiskScore |-> risk_other,
      RiskReduction |-> reduction ]

\* RiskBelow as it would be with <= for <.
RiskBelow_or_equal(rm, other, risk_query) == other \in DOMAIN rm /\ rm[other] <= risk_query

\* risk_other < risk_query with risk_other = risk_map.get(other, float("inf")):
\* infinity is below no score.
RiskBelow(rm, other, risk_query) == other \in DOMAIN rm /\ rm[other] < risk_query

\* The loop of lines 665-678 over side_effect_lookup.items().
RECURSIVE SuggestFrom(_, _, _, _, _, _)
SuggestFrom(acc, keys, i, rm, lookup, d) ==
    IF i > Len(keys) THEN acc
    ELSE LET other   == keys[i]
             overlap == Cardinality(Range(lookup[d]) \cap Range(lookup[other]))
             keep    == other # d /\ overlap # 0 /\ RiskBelow(rm, other, rm[d])
             row     == Suggestion(other, overlap, rm[other], rm[d] - rm[other])
         IN  SuggestFrom(IF keep THEN Append(acc, row) ELSE acc, keys, i + 1, rm, lookup, d)

\* SortsBefore as it would be with the second key ascending.
SortsBefore_ascending_ties(r1, r2) ==
    \/ r1.SharedEffects > r2.SharedEffects
    \/ r1.SharedEffects = r2.SharedEffects /\ r1.RiskReduction < r2.RiskReduction

\* Row r1 comes strictly before r2 under
\* sort_values(["Shared Effects", "Risk Reduction"], ascending=[False, False]).
SortsBefore(r1, r2) ==
    \/ r1.SharedEffects > r2.SharedEffects
    \/ r1.SharedEffects = r2.SharedEffects /\ r1.RiskReduction > r2.RiskReduction

\* One row put into a sorted list behind every row it does not sort before.
RECURSIVE InsertRow(_, _)
InsertRow(sorted, r) ==
    IF sorted = << >> THEN << r >>
    ELSE IF SortsBefore(r, Head(sorted)) THEN << r >> \o sorted
    ELSE << Head(sorted) >> \o InsertRow(Tail(sorted), r)

\* sort_values: rows with equal keys keep their order.
RECURSIVE SortFrom(_, _, _)
SortFrom(acc, rows, i) ==
    IF i > Len(rows) THEN acc ELSE SortFrom(InsertRow(acc, rows[i]), rows, i + 1)

sort_values(rows) == SortFrom(<< >>, rows, 1)

Tab2NotRun == [ status |-> "not_run", rows |-> << >>, error |-> "none" ]

\* Lines 660-685.  risk_map[drug] raises KeyError for a drug without a score.
Tab2(rm, lookup, d) ==
    IF d # EmptyStr /\ d \in DOMAIN lookup
    THEN IF d \notin DOMAIN rm
         THEN [ status |-> "raised", rows |-> << >>, error |-> "KeyError:662" ]
         ELSE LET suggestions == SuggestFrom(<< >>, LookupKeys(lookup), 1, rm, lookup, d)
              IN  IF suggestions # << >>
                  THEN [ status |-> "table", rows |-> sort_values(suggestions),
                         error |-> "none" ]
                  ELSE [ status |-> "none_found", rows |-> << >>, error |-> "none" ]
    ELSE [ status |-> "prompt", rows |-> << >>, error |-> "none" ]


---------------------------------------------------------------------------
(* Tab 4 - Polypharmacy                                                    *)

\* max_selections of the multiselect.
MaxSelections == 5

\* The thresholds 0.7 and 0.4 of risk_level, in tenths.
HighThreshold == 7

MediumThreshold == 4

\* The state of the loop of lines 751-758.
PolyStart ==
    [ combined_effects |-> {}, overlap_none |-> TRUE, overlap_effects |-> {},
      combined_score |-> 0 ]

\* PolyStep as it would be if the overlap started from the empty set.
PolyStep_empty_start(acc, rm, lookup, d) ==
    LET se_set == Range(DictGet(lookup, d, << >>))
    IN  [ combined_effects |-> acc.combined_effects \cup se_set,
          overlap_none     |-> FALSE,
          overlap_effects  |-> acc.overlap_effects \cap se_set,
          combined_score   |-> acc.combined_score + DictGet(rm, d, 0) ]

PolyStep(acc, rm, lookup, d) ==
    LET se_set == Range(DictGet(lookup, d, << >>))
    IN  [ combined_effects |-> acc.combined_effects \cup se_set,
          overlap_none     |-> FALSE,
          overlap_effects  |-> IF acc.overlap_none THEN se_set
                               ELSE acc.overlap_effects \cap se_set,
          combined_score   |-> acc.combined_score + DictGet(rm, d, 0) ]

RECURSIVE PolyLoop(_, _, _, _, _)
PolyLoop(acc, sel, i, rm, lookup) ==
    IF i > Len(sel) THEN acc
    ELSE PolyLoop(PolyStep(acc, rm, lookup, sel[i]), sel, i + 1, rm, lookup)

\* max(risk_map.get(d, 0) for d in selected_drugs)
RECURSIVE MaxFrom(_, _, _, _)
MaxFrom(best, sel, i, rm) ==
    IF i > Len(sel) THEN best
    ELSE LET r == DictGet(rm, sel[i], 0)
         IN  MaxFrom(IF r > best THEN r ELSE best, sel, i + 1, rm)

max_score(sel, rm) == MaxFrom(DictGet(rm, sel[1], 0), sel, 2, rm)

\* risk_level as it would be with >= for >.
risk_level_inclusive(num, den) ==
    IF num >= HighThreshold * den THEN "High"
    ELSE IF num >= MediumThreshold * den THEN "Medium"
    ELSE "Low"

\* "High" if avg_score > 0.7 else "Medium" if avg_score > 0.4 else "Low",
\* for avg_score = num / den with den > 0.
risk_level(num, den) ==
    IF num > HighThreshold * den THEN "High"
    ELSE IF num > MediumThreshold * den THEN "Medium"
    ELSE "Low"

\* The loop of lines 809-810: one trace per drug, risk_map[d] raising KeyError
\* at the first drug without a score.
RECURSIVE TraceLoop(_, _, _, _)
TraceLoop(acc, sel, i, rm) ==
    IF i > Len(sel) THEN [ traces |-> acc, error |-> "none" ]
    ELSE IF sel[i] \notin DOMAIN rm THEN [ traces |-> acc, error |-> "KeyError:810" ]
    ELSE TraceLoop(Append(acc, << sel[i], rm[sel[i]] >>), sel, i + 1, rm)

Tab4Blank(st) ==
    [ status |-> st, combined_effects |-> {}, overlap_effects |-> {}, overlap_count |-> 0,
      combined_score |-> 0, avg_num |-> 0, avg_den |-> 1, max_score |-> 0,
      risk_level |-> "", traces |-> << >>, error |-> "none" ]

Tab4NotRun == Tab4Blank("not_run")

\* Lines 747-814.
Tab4(rm, lookup, sel) ==
    IF Len(sel) >= 2
    THEN LET acc == PolyLoop(PolyStart, sel, 1, rm, lookup)
             cmp == TraceLoop(<< >>, sel, 1, rm)
         IN  [ status           |-> "analysis",
               combined_effects |-> acc.combined_effects,
               overlap_effects  |-> acc.overlap_effects,
               overlap_count    |-> Cardinality(acc.overlap_effects),
               combined_score   |-> acc.combined_score,
               avg_num          |-> acc.combined_score,
               avg_den          |-> Len(sel),
               max_score        |-> max_score(sel, rm),
               risk_level       |-> risk_level(acc.combined_score, Len(sel)),
               traces           |-> cmp.traces,
               error            |-> cmp.error ]
    ELSE Tab4Blank("prompt")


---------------------------------------------------------------------------
(* Rational numbers and DataFrame.nlargest                                 *)

\* A centrality is the exact quotient << numerator, denominator >> in lowest
\* terms, with a positive denominator.
RECURSIVE Gcd(_, _)
Gcd(a, b) == IF b = 0 THEN a ELSE Gcd(b, a % b)

Rat(n, d) == IF n = 0 THEN << 0, 1 >> ELSE << n \div Gcd(n, d), d \div Gcd(n, d) >>

RatAdd(p, q) == Rat(p[1] * q[2] + q[1] * p[2], p[2] * q[2])

RatMul(p, q) == Rat(p[1] * q[1], p[2] * q[2])

RatGreater(p, q) == p[1] * q[2] > q[1] * p[2]

\* The selection loop of nlargest: the largest key that is left, the first of
\* the rows that have it (keep="first").
RECURSIVE LargestFrom(_, _, _, _)
LargestFrom(acc, n, keys, left) ==
    IF Len(acc) = n \/ left = {} THEN acc
    ELSE LET m == CHOOSE i \in left :
                      \A j \in left \ { i } :
                          \/ RatGreater(keys[i], keys[j])
                          \/ ~RatGreater(keys[j], keys[i]) /\ i < j
         IN  LargestFrom(Append(acc, m), n, keys, left \ { m })

\* df.nlargest(n, column): the positions of the n rows with the largest keys,
\* largest first, rows of equal keys in the order of the frame.
nlargest(n, keys) == LargestFrom(<< >>, n, keys, DOMAIN keys)

---------------------------------------------------------------------------
(* Tab 1, second column - the network of the selected drug                 *)

\* se_list[:20]
NetworkLimit == 20

\* Lines 589-600, the checkbox at its default (checked): one edge per side
\* effect of the index entry, with the frequency of the graph's edge when
\* G.has_edge(drug, se), else titled "Frequency: N/A".
Tab1Network(g, lookup, d) ==
    IF d # EmptyStr /\ d \in DOMAIN lookup
    THEN LET se_list == dedup(lookup[d])
             shown == SubSeq(se_list, 1,
                             IF Len(se_list) < NetworkLimit THEN Len(se_list) ELSE NetworkLimit)
         IN  [ i \in DOMAIN shown |->
                 IF has_edge(g, d, shown[i])
                 THEN [ se |-> shown[i], in_graph |-> TRUE,
                        frequency |-> g.edges[<< d, shown[i] >>] ]
                 ELSE [ se |-> shown[i], in_graph |-> FALSE, frequency |-> NA ] ]
    ELSE << >>

---------------------------------------------------------------------------
(* Sidebar and tab 3 - Risk Explorer                                       *)

\* float(risk_df["risk_score"].min()) and .max() of a table with rows.
RECURSIVE MinFrom(_, _, _)
MinFrom(best, rows, i) ==
    IF i > Len(rows) THEN best
    ELSE MinFrom(IF rows[i].risk_score < best THEN rows[i].risk_score ELSE best, rows, i + 1)

min_risk(df) == MinFrom(df.rows[1].risk_score, df.rows, 2)

RECURSIVE MaxRiskFrom(_, _, _)
MaxRiskFrom(best, rows, i) ==
    IF i > Len(rows) THEN best
    ELSE MaxRiskFrom(IF rows[i].risk_score > best THEN rows[i].risk_score ELSE best,
                     rows, i + 1)

max_risk(df) == MaxRiskFrom(df.rows[1].risk_score, df.rows, 2)

\* The arguments the slider is created with; none when there is no slider.
SliderArgs(df) == IF df.rows = << >> THEN << >> ELSE << min_risk(df), max_risk(df) >>

\* risk_filter when the slider is at its default: the whole range of the
\* table, (0.0, 1.0) when the table is empty.
DefaultFilter(df) == IF df.rows = << >> THEN << 0, 10 >> ELSE SliderArgs(df)

\* The request "no value set": the slider is new in this run.
AtDefault == << >>

\* InRange as it would be with both bounds exclusive.
InRange_exclusive(score, rf) == score > rf[1] /\ score < rf[2]

\* (risk_score >= risk_filter[0]) & (risk_score <= risk_filter[1])
InRange(score, rf) == score >= rf[1] /\ score <= rf[2]

\* risk_df[mask]: the rows of the mask in table order, each with its index label.
RECURSIVE FilterFrom(_, _, _)
FilterFrom(rows, rf, i) ==
    IF i > Len(rows) THEN << >>
    ELSE (IF InRange(rows[i].risk_score, rf)
          THEN << [ index |-> i, drug_name |-> rows[i].drug_name,
                    risk_score |-> rows[i].risk_score ] >>
          ELSE << >>)
         \o FilterFrom(rows, rf, i + 1)

RECURSIVE SumScores(_, _)
SumScores(rows, i) ==
    IF i > Len(rows) THEN 0 ELSE rows[i].risk_score + SumScores(rows, i + 1)

\* nlargest(5, "risk_score")
TopRisk == 5

Tab3NotRun ==
    [ status |-> "not_run", info |-> FALSE, filtered |-> << >>, count |-> 0,
      avg_shown |-> FALSE, avg_num |-> 0, avg_den |-> 1, top |-> << >> ]

\* The rows of nlargest(5, "risk_score") of a result.
TopRows(filtered) ==
    LET largest == nlargest(TopRisk, [ i \in DOMAIN filtered |-> << filtered[i].risk_score, 1 >> ])
    IN  [ k \in DOMAIN largest |-> filtered[largest[k]] ]

\* Render as it would be if the mean were computed for every result.
Render_mean_unguarded(df, filtered) ==
    [ status    |-> "rendered",
      info      |-> df.rows = << >>,
      filtered  |-> filtered,
      count     |-> Len(filtered),
      avg_shown |-> TRUE,
      avg_num   |-> SumScores(filtered, 1),
      avg_den   |-> Len(filtered),
      top       |-> TopRows(filtered) ]

\* Lines 697-723: the number of rows of the result and, for a result that is
\* not empty, the mean and the rows of nlargest(5, "risk_score").
Render(df, filtered) ==
    IF filtered # << >>
    THEN [ status    |-> "rendered",
           info      |-> df.rows = << >>,
           filtered  |-> filtered,
           count     |-> Len(filtered),
           avg_shown |-> TRUE,
           avg_num   |-> SumScores(filtered, 1),
           avg_den   |-> Len(filtered),
           top       |-> TopRows(filtered) ]
    ELSE [ Tab3NotRun EXCEPT !.status = "rendered", !.info = df.rows = << >> ]

\* Lines 693-696: st.info for an empty risk table; the rows in the range.
Tab3(df, rf) ==
    Render(df, IF df.rows # << >> THEN FilterFrom(df.rows, rf, 1) ELSE << >>)

---------------------------------------------------------------------------
(* Betweenness centrality                                                  *)

Successors(g, u) == { v \in Range(g.nodes) : << u, v >> \in DOMAIN g.edges }

\* The simple paths of g that extend the path p.
RECURSIVE PathsFrom(_, _)
PathsFrom(g, p) ==
    { p } \cup UNION { PathsFrom(g, Append(p, w)) : w \in Successors(g, p[Len(p)]) \ Range(p) }

\* The shortest paths from s to t, which the breadth-first search from s counts.
ShortestPaths(g, s, t) ==
    LET P == { p \in PathsFrom(g, << s >>) : p[Len(p)] = t }
    IN  { p \in P : \A q \in P : Len(p) <= Len(q) }

\* The share of the shortest paths from s to t that pass through v.
PairDependency(g, s, t, v) ==
    LET SP == ShortestPaths(g, s, t)
    IN  IF SP = {} THEN << 0, 1 >>
        ELSE Rat(Cardinality({ p \in SP : v \in Range(p) }), Cardinality(SP))

RECURSIVE Accumulate(_, _, _)
Accumulate(g, v, pairs) ==
    IF pairs = {} THEN << 0, 1 >>
    ELSE LET st == CHOOSE x \in pairs : TRUE
         IN  RatAdd(PairDependency(g, st[1], st[2], v), Accumulate(g, v, pairs \ { st }))

\* What the accumulation over the given sources adds up for v: a source adds
\* nothing to itself, and an endpoint of a path is not on it.
Dependency(g, sources, v) ==
    Accumulate(g, v, { st \in (sources \ { v }) \X (Range(g.nodes) \ { v }) : st[1] # st[2] })

\* The mapping node -> value in the order of G.nodes, every value multiplied
\* by the scale.
Betweenness(g, sources, scale) ==
    [ i \in DOMAIN g.nodes |->
        [ Node |-> g.nodes[i],
          Centrality |-> RatMul(Dependency(g, sources, g.nodes[i]), scale) ] ]

\* The normalisation of a directed graph of n nodes: none for n <= 2, else
\* 1 / ((n - 1)(n - 2)).
ExactScale(n) == IF n <= 2 THEN << 1, 1 >> ELSE Rat(1, (n - 1) * (n - 2))

\* With k sampled sources the scale is multiplied by n / k.
SampledScale(n, k) == IF n <= 2 THEN << 1, 1 >> ELSE Rat(n, (n - 1) * (n - 2) * k)

\* nx.betweenness_centrality(G): every node is a source.
betweenness_exact(g) == Betweenness(g, Range(g.nodes), ExactScale(Len(g.nodes)))

\* random.sample(list(G.nodes()), k) raises ValueError for k > len(G).
SampleRaises(g, k) == k > Len(g.nodes)

\* nx.betweenness_centrality(G, k=k) when the sample is drawn: the generator is
\* not seeded, the sources are any k nodes.
betweenness_sampled(g, k) ==
    { Betweenness(g, S, SampledScale(Len(g.nodes), k)) :
        S \in { T \in SUBSET Range(g.nodes) : Cardinality(T) = k } }

\* The limit of k in compute_centrality (100 in the source), scaled down so
\* that graphs with more nodes than sources can be enumerated.
PivotLimit == 2

\* k as it would be without the lower limit of 1.
SampleSize_of_node_count(n) == IF n < PivotLimit THEN n ELSE PivotLimit

\* k = min(100, max(1, len(_G.nodes())))
SampleSize(n) ==
    LET m == IF n > 1 THEN n ELSE 1
    IN  IF m < PivotLimit THEN m ELSE PivotLimit

\* The body of compute_centrality: the outcomes it can have, each with the k of
\* the first attempt, whether that attempt raised, and the mapping returned.
compute_centrality(g) ==
    LET k == SampleSize(Len(g.nodes))
    IN  IF SampleRaises(g, k)
        THEN { [ k |-> k, sampled_raised |-> TRUE, result |-> betweenness_exact(g) ] }
        ELSE { [ k |-> k, sampled_raised |-> FALSE, result |-> r ] :
                 r \in betweenness_sampled(g, k) }

---------------------------------------------------------------------------
(* Tab 5 - Critical Nodes                                                  *)

\* nlargest(10, "Centrality")
TopCentral == 10

\* A stored mapping: st.session_state["centrality"], or the entry of
\* st.cache_data for compute_centrality.
NotStored == [ set |-> FALSE, items |-> << >> ]

Stored(items) == [ set |-> TRUE, items |-> items ]

\* CentralitySource as it would be if nothing were ever stored.
CentralitySource_always_computes(session, cache) == "computed"

\* Where a run takes the mapping from.  Line 822 looks in the session state
\* first; compute_centrality(_G) is memoised by st.cache_data, and the
\* parameter _G, whose name starts with an underscore, is no part of the key:
\* an entry is a hit whatever the graph.
CentralitySource(session, cache) ==
    IF session.set THEN "session_state"
    ELSE IF cache.set THEN "cache"
    ELSE "computed"

Tab5Blank(st) ==
    [ status |-> st, source |-> "none", k |-> 0, sampled_raised |-> FALSE,
      drug_top |-> << >>, se_top |-> << >>, error |-> "none" ]

Tab5NotRun == Tab5Blank("not_run")

\* The rows of cent_df of one type, in the order of the mapping.
RECURSIVE RowsOfType(_, _, _, _)
RowsOfType(g, items, kind, i) ==
    IF i > Len(items) THEN << >>
    ELSE (IF g.type[items[i].Node] = kind THEN << items[i] >> ELSE << >>)
         \o RowsOfType(g, items, kind, i + 1)

TopOfType(g, items, kind) ==
    LET rows == RowsOfType(g, items, kind, 1)
        largest == nlargest(TopCentral, [ i \in DOMAIN rows |-> rows[i].Centrality ])
    IN  [ j \in DOMAIN largest |-> rows[largest[j]] ]

\* Lines 825-828.  G.nodes[n]["type"] raises KeyError for a key of the mapping
\* that is no node of G; pd.DataFrame([]) has no columns, so cent_df["Type"]
\* raises KeyError for the empty mapping.
Tab5(g, items, how) ==
    IF \E i \in DOMAIN items : items[i].Node \notin Range(g.nodes)
    THEN [ Tab5Blank("raised") EXCEPT !.source = how.source, !.k = how.k,
             !.sampled_raised = how.sampled_raised, !.error = "KeyError:826" ]
    ELSE IF items = << >>
    THEN [ Tab5Blank("raised") EXCEPT !.source = how.source, !.k = how.k,
             !.sampled_raised = how.sampled_raised, !.error = "KeyError:827" ]
    ELSE [ status |-> "ranked", source |-> how.source, k |-> how.k,
           sampled_raised |-> how.sampled_raised,
           drug_top |-> TopOfType(g, items, "drug"),
           se_top |-> TopOfType(g, items, "side_effect"),
           error |-> "none" ]

---------------------------------------------------------------------------
(* Tab 6 - Risk Hypotheses                                                 *)

Tab6Blank(st) ==
    [ status |-> st, risk_a |-> 0, risk_b |-> 0, overlap_count |-> 0,
      clicked |-> FALSE, request |-> "not_sent", message |-> "none", error |-> "none" ]

Tab6NotRun == Tab6Blank("not_run")

\* What the request to the generation service does: the client cannot be
\* constructed, generate_content raises, or a response comes back.
ApiOutcomes == { "client_raises", "generate_raises", "response" }

\* Tab6 as it would be without the try/except around the request.
Tab6_unguarded(rm, lookup, a, b, clicked, api) ==
    IF a # EmptyStr /\ b # EmptyStr
    THEN LET shown == [ Tab6Blank("analysis") EXCEPT
                          !.risk_a = DictGet(rm, a, 0),
                          !.risk_b = DictGet(rm, b, 0),
                          !.overlap_count =
                              Cardinality(Range(DictGet(lookup, a, << >>))
                                          \cap Range(DictGet(lookup, b, << >>))) ]
         IN  IF ~clicked THEN shown
             ELSE IF api = "response"
                  THEN [ shown EXCEPT !.status = "generated", !.clicked = TRUE,
                                      !.request = api, !.message = "response text" ]
                  ELSE [ shown EXCEPT !.status = "raised", !.clicked = TRUE,
                                      !.request = api, !.error = api ]
    ELSE Tab6Blank("info")

\* Lines 888-965: the info line without two drugs, else the three metrics and,
\* in the run the button was clicked in, the request inside try/except: the
\* text of the response, or st.error("AI generation failed: ...").
Tab6(rm, lookup, a, b, clicked, api) ==
    IF a # EmptyStr /\ b # EmptyStr
    THEN LET shown == [ Tab6Blank("analysis") EXCEPT
                          !.risk_a = DictGet(rm, a, 0),
                          !.risk_b = DictGet(rm, b, 0),
                          !.overlap_count =
                              Cardinality(Range(DictGet(lookup, a, << >>))
                                          \cap Range(DictGet(lookup, b, << >>))) ]
         IN  IF ~clicked THEN shown
             ELSE IF api = "response"
                  THEN [ shown EXCEPT !.status = "generated", !.clicked = TRUE,
                                      !.request = api, !.message = "response text" ]
                  ELSE [ shown EXCEPT !.status = "failed", !.clicked = TRUE,
                                      !.request = api,
                                      !.message = "AI generation failed" ]
    ELSE Tab6Blank("info")

---------------------------------------------------------------------------
(* The script                                                              *)

\* The row cap of build_graph(edges_df.head(500)), scaled down so that tables
\* longer than the cap can be enumerated.
HeadLimit == 2

\* Lines 83-84 on a cache miss: load_data() reads the files, build_graph
\* builds the graph of the first rows.
LoadAndBuild ==
    /\ edges_df' = load_data(EDGE_CSV, RISK_CSV)[1]
    /\ risk_df' = load_data(EDGE_CSV, RISK_CSV)[2]
    /\ G' = build_graph(DfHead(edges_df', HeadLimit))

\* Lines 83-84 on a later run: st.cache_data returns the stored tables and the
\* stored graph of the same table.
FromCache == UNCHANGED << edges_df, risk_df, G >>

\* Lines 86-89, evaluated by every run.
Prepare ==
    /\ risk_map' = build_risk_map(risk_df')
    /\ side_effect_lookup' = build_lookup(edges_df')

\* Lines 516-527: no slider and (0.0, 1.0) for an empty risk table; else the
\* slider, which returns rf, the value the user left it at, when it was
\* created with the same arguments in the run before, and its default when
\* it is new.
Sidebar(rf) ==
    risk_filter' =
        IF risk_df'.rows = << >> THEN DefaultFilter(risk_df')
        ELSE IF rf = AtDefault \/ SliderArgs(risk_df') # SliderArgs(risk_df)
        THEN DefaultFilter(risk_df')
        ELSE rf

\* Tabs 1 to 4 in order, with d in the tab 1 selectbox and sel in the tab 4
\* multiselect.  A tab that raises ends the run: the tabs behind it render
\* nothing.
Tabs(d, sel) ==
    /\ drug' = d
    /\ selected_drugs' = sel
    /\ tab1' = Tab1(risk_map', side_effect_lookup', d)
    /\ tab1_network' = Tab1Network(G', side_effect_lookup', d)
    /\ tab2' = Tab2(risk_map', side_effect_lookup', d)
    /\ tab3' = IF tab2'.error # "none" THEN Tab3NotRun ELSE Tab3(risk_df', risk_filter')
    /\ tab4' = IF tab2'.error # "none" THEN Tab4NotRun
               ELSE Tab4(risk_map', side_effect_lookup', sel)

\* One more execution of the body of compute_centrality.
Remember(log, entry) ==
    IF Len(log) < 2 THEN Append(log, entry) ELSE << log[2], entry >>

NotComputed(source) == [ source |-> source, k |-> 0, sampled_raised |-> FALSE ]

\* Tab 5, lines 822-828: the mapping of the session state if there is one,
\* else the result of compute_centrality(G), stored in the session state.
CriticalNodes ==
    IF tab2'.error # "none" \/ tab4'.error # "none"
    THEN /\ tab5' = Tab5NotRun
         /\ UNCHANGED << centrality, centrality_cache, computed >>
    ELSE IF CentralitySource(centrality, centrality_cache) = "session_state"
    THEN /\ tab5' = Tab5(G', centrality.items, NotComputed("session_state"))
         /\ UNCHANGED << centrality, centrality_cache, computed >>
    ELSE IF CentralitySource(centrality, centrality_cache) = "cache"
    THEN /\ centrality' = centrality_cache
         /\ tab5' = Tab5(G', centrality_cache.items, NotComputed("cache"))
         /\ UNCHANGED << centrality_cache, computed >>
    ELSE \E out \in compute_centrality(G') :
            /\ centrality' = Stored(out.result)
            /\ centrality_cache' = Stored(out.result)
            /\ computed' = Remember(computed, [ graph |-> G', items |-> out.result ])
            /\ tab5' = Tab5(G', out.result,
                            [ source |-> "computed", k |-> out.k,
                              sampled_raised |-> out.sampled_raised ])

\* Tab 6, with a and b in its selectboxes; clicked is TRUE in the run the
\* button started, and api is what the request does in that run.
Hypotheses(a, b, clicked, api) ==
    /\ drug_a' = a
    /\ drug_b' = b
    /\ tab6' = IF tab2'.error # "none" \/ tab4'.error # "none" \/ tab5'.error # "none"
               THEN Tab6NotRun
               ELSE Tab6(risk_map', side_effect_lookup', a, b, clicked, api)

\* The exception that ends the run is the first one raised.
Raised ==
    raised' = IF tab2'.error # "none" THEN tab2'.error
              ELSE IF tab4'.error # "none" THEN tab4'.error
              ELSE IF tab5'.error # "none" THEN tab5'.error
              ELSE tab6'.error

\* Lines 86-965 of one run.
Script(d, sel, rf, a, b, clicked, api) ==
    /\ Prepare
    /\ Sidebar(rf)
    /\ Tabs(d, sel)
    /\ CriticalNodes
    /\ Hypotheses(a, b, clicked, api)
    /\ Raised

\* A run of the script after the first, started by a widget.
RerunWith(d, sel, rf, a, b, clicked, api) ==
    /\ pc = "ready"
    /\ FromCache
    /\ Script(d, sel, rf, a, b, clicked, api)
    /\ UNCHANGED << pc, EDGE_CSV, RISK_CSV >>

\* A run started by the widgets of tab 1 or tab 4.
Rerun(d, sel) == RerunWith(d, sel, risk_filter, drug_a, drug_b, FALSE, "response")

---------------------------------------------------------------------------
(* Datasets and inputs of the model                                        *)

File(rows) == [ exists |-> TRUE, rows |-> rows ]

Absent == [ exists |-> FALSE, rows |-> << >> ]

\* Longest list of side-effect rows of one drug in the query datasets.
MaxList == 2

QDrugs == << Str_a, Str_b, Str_c >>

QEffects == { Str_x, Str_y }

RECURSIVE RowsOf(_, _, _)
RowsOf(d, effects, i) ==
    IF i > Len(effects) THEN << >>
    ELSE << EdgeRow(d, effects[i], FreqNum(10)) >> \o RowsOf(d, effects, i + 1)

\* An edge table with the given side-effect rows of "a", "b" and "c".
EdgeTable(la, lb, lc) ==
    RowsOf(QDrugs[1], la, 1) \o RowsOf(QDrugs[2], lb, 1) \o RowsOf(QDrugs[3], lc, 1)

\* A risk table; each argument is the row of one drug, or no row.
RowChoices(d, scores) == { << >> } \cup { << RiskRow(d, r) >> : r \in scores }

\* The edge tables of the query datasets: "a" and "b" with at most MaxList
\* side-effect rows each, duplicates allowed, "c" with at most one.
QEdgeTables ==
    { EdgeTable(la, lb, lc) :
        la \in SeqsUpTo(QEffects, MaxList), lb \in SeqsUpTo(QEffects, MaxList),
        lc \in SeqsUpTo(QEffects, 1) }

\* The risk tables of the query datasets: every drug has one row or none, the
\* scores (in tenths) are such that two drugs can lie below a third at equal
\* or at different distances, and that averages of exactly 0.4 and 0.7 occur.
QRiskTables ==
    { ra \o rb \o rc :
        ra \in RowChoices(QDrugs[1], {7, 8}), rb \in RowChoices(QDrugs[2], {4, 8}),
        rc \in RowChoices(QDrugs[3], {4, 7}) }

\* The small datasets on which both widgets are exercised together.
SmallEdgeTables ==
    { EdgeTable(la, lb, << >>) : la \in SeqsUpTo(QEffects, 1), lb \in SeqsUpTo(QEffects, 1) }

SmallRiskTables ==
    { ra \o rb : ra \in RowChoices(QDrugs[1], {7, 8}), rb \in RowChoices(QDrugs[2], {4, 8}) }

\* Values of the tab 1 selectbox.
DrugInputs == { EmptyStr } \cup Range(QDrugs)

\* sel without its i-th element.
RemoveAt(sel, i) == SubSeq(sel, 1, i - 1) \o SubSeq(sel, i + 1, Len(sel))

---------------------------------------------------------------------------
(* Sessions                                                                *)

Blank ==
    /\ pc = "start"
    /\ edges_df = DataFrame(EdgeColumns, << >>)
    /\ risk_df = DataFrame(RiskColumns, << >>)
    /\ G = EmptyGraph
    /\ risk_map = EmptyDict
    /\ side_effect_lookup = EmptyDict
    /\ drug = EmptyStr
    /\ selected_drugs = << >>
    /\ tab1 = Tab1Idle
    /\ tab2 = Tab2NotRun
    /\ tab4 = Tab4NotRun
    /\ raised = "none"
    /\ risk_filter = DefaultFilter(DataFrame(RiskColumns, << >>))
    /\ drug_a = EmptyStr
    /\ drug_b = EmptyStr
    /\ centrality = NotStored
    /\ centrality_cache = NotStored
    /\ computed = << >>
    /\ tab1_network = << >>
    /\ tab3 = Tab3NotRun
    /\ tab5 = Tab5NotRun
    /\ tab6 = Tab6NotRun

\* The first run of the script, every widget at its default.
Start ==
    /\ pc = "start"
    /\ LoadAndBuild
    /\ Script(EmptyStr, << >>, AtDefault, EmptyStr, EmptyStr, FALSE, "response")
    /\ pc' = "ready"
    /\ UNCHANGED << EDGE_CSV, RISK_CSV >>

\* The user picks another entry of the tab 1 selectbox; the script runs again.
SelectDrug(d) == d # drug /\ Rerun(d, selected_drugs)

\* The user adds a drug to the tab 4 multiselect (at most max_selections);
\* the script runs again.
AddDrug(d) ==
    /\ d \notin Range(selected_drugs)
    /\ Len(selected_drugs) < MaxSelections
    /\ Rerun(drug, Append(selected_drugs, d))

\* The user removes a drug from the tab 4 multiselect; the script runs again.
RemoveDrug(i) ==
    /\ i \in DOMAIN selected_drugs
    /\ Rerun(drug, RemoveAt(selected_drugs, i))

\* The whole dashboard on the small datasets, either file possibly missing.
Init ==
    /\ EDGE_CSV \in { Absent } \cup { File(t) : t \in SmallEdgeTables }
    /\ RISK_CSV \in { Absent } \cup { File(t) : t \in SmallRiskTables }
    /\ Blank

Next ==
    \/ Start
    \/ \E d \in DrugInputs : SelectDrug(d)
    \/ \E d \in Range(QDrugs) : AddDrug(d)
    \/ \E i \in 1..MaxSelections : RemoveDrug(i)

Spec == Init /\ [][Next]_vars

\* Sessions on the query datasets in which only tab 1 is used.
InitAlt ==
    /\ EDGE_CSV \in { File(t) : t \in QEdgeTables }
    /\ RISK_CSV \in { File(t) : t \in QRiskTables }
    /\ Blank

NextAlt ==
    \/ Start
    \/ \E d \in DrugInputs : SelectDrug(d)

SpecAlt == InitAlt /\ [][NextAlt]_vars

\* Sessions on the query datasets in which only tab 4 is used.
NextPoly ==
    \/ Start
    \/ \E d \in Range(QDrugs) : AddDrug(d)
    \/ \E i \in 1..MaxSelections : RemoveDrug(i)

SpecPoly == InitAlt /\ [][NextPoly]_vars

\* Sessions on the graph datasets: the first run of the script, which builds
\* the graph.
GDrugNames == { Str_a, << SPACE >> \o Str_x }

GEffectNames == { Str_x \o << SPACE >>, Str_a }

GFreqs == { FreqNum(10), FreqNum(20), FreqMissing, FreqText }

GEdgeRows == { EdgeRow(d, se, f) : d \in GDrugNames, se \in GEffectNames, f \in GFreqs }

\* Edge tables of up to one row more than the cap of build_graph.
GEdgeTables == SeqsUpTo(GEdgeRows, HeadLimit + 1)

InitGraph ==
    /\ EDGE_CSV \in { File(t) : t \in GEdgeTables }
    /\ RISK_CSV = File(<< RiskRow(Str_a, 7) >>)
    /\ Blank

NextGraph == Start

SpecGraph == InitGraph /\ [][NextGraph]_vars

---------------------------------------------------------------------------
(* Sessions that use the sidebar, tab 6 and the cache                      *)

\* The user moves the slider to (lo, hi) within its range; the script runs again.
SetRiskFilter(lo, hi) ==
    /\ pc = "ready"
    /\ risk_df.rows # << >>
    /\ min_risk(risk_df) <= lo /\ lo <= hi /\ hi <= max_risk(risk_df)
    /\ << lo, hi >> # risk_filter
    /\ RerunWith(drug, selected_drugs, << lo, hi >>, drug_a, drug_b, FALSE, "response")

\* The user picks an entry of a selectbox of tab 6; the script runs again.
SelectPrimary(a) ==
    /\ a # drug_a
    /\ RerunWith(drug, selected_drugs, risk_filter, a, drug_b, FALSE, "response")

SelectSecondary(b) ==
    /\ b # drug_b
    /\ RerunWith(drug, selected_drugs, risk_filter, drug_a, b, FALSE, "response")

\* The user clicks "Generate Scientific Hypotheses", which the last run drew;
\* the script runs again with the button set, and the request does api.
Generate(api) ==
    /\ tab6.status \in { "analysis", "generated", "failed" }
    /\ RerunWith(drug, selected_drugs, risk_filter, drug_a, drug_b, TRUE, api)

\* The data files are replaced on disk.
ReplaceFiles(edge_csv, risk_csv) ==
    /\ << edge_csv, risk_csv >> # << EDGE_CSV, RISK_CSV >>
    /\ EDGE_CSV' = edge_csv
    /\ RISK_CSV' = risk_csv
    /\ UNCHANGED << pc, edges_df, risk_df, G, risk_map, side_effect_lookup, drug,
                    selected_drugs, tab1, tab2, tab4, raised, risk_filter, drug_a,
                    drug_b, centrality, centrality_cache, computed, tab1_network,
                    tab3, tab5, tab6 >>

\* "Clear cache" of the Streamlit menu: every st.cache_data entry is dropped,
\* the session state stays.
ClearCache ==
    /\ pc = "ready"
    /\ pc' = "cleared"
    /\ centrality_cache' = NotStored
    /\ UNCHANGED << EDGE_CSV, RISK_CSV, edges_df, risk_df, G, risk_map,
                    side_effect_lookup, drug, selected_drugs, tab1, tab2, tab4,
                    raised, risk_filter, drug_a, drug_b, centrality, computed,
                    tab1_network, tab3, tab5, tab6 >>

\* The next run after the cache was cleared: the files are read again, the
\* widgets keep their values.
Reload ==
    /\ pc = "cleared"
    /\ LoadAndBuild
    /\ Script(drug, selected_drugs, risk_filter, drug_a, drug_b, FALSE, "response")
    /\ pc' = "ready"
    /\ UNCHANGED << EDGE_CSV, RISK_CSV >>

\* The browser session ends: its session state and widget values are gone.
\* The cache entries belong to the server and stay, unless they were cleared.
EndSession ==
    /\ pc \in { "ready", "cleared" }
    /\ pc' = IF pc = "ready" THEN "closed" ELSE "start"
    /\ edges_df' = IF pc = "ready" THEN edges_df ELSE DataFrame(EdgeColumns, << >>)
    /\ risk_df' = IF pc = "ready" THEN risk_df ELSE DataFrame(RiskColumns, << >>)
    /\ G' = IF pc = "ready" THEN G ELSE EmptyGraph
    /\ risk_map' = EmptyDict
    /\ side_effect_lookup' = EmptyDict
    /\ drug' = EmptyStr
    /\ selected_drugs' = << >>
    /\ tab1' = Tab1Idle
    /\ tab2' = Tab2NotRun
    /\ tab4' = Tab4NotRun
    /\ raised' = "none"
    /\ risk_filter' = DefaultFilter(DataFrame(RiskColumns, << >>))
    /\ drug_a' = EmptyStr
    /\ drug_b' = EmptyStr
    /\ centrality' = NotStored
    /\ tab1_network' = << >>
    /\ tab3' = Tab3NotRun
    /\ tab5' = Tab5NotRun
    /\ tab6' = Tab6NotRun
    /\ UNCHANGED << EDGE_CSV, RISK_CSV, centrality_cache, computed >>

\* The first run of a new session on a server whose cache is filled.
Open ==
    /\ pc = "closed"
    /\ FromCache
    /\ Script(EmptyStr, << >>, AtDefault, EmptyStr, EmptyStr, FALSE, "response")
    /\ pc' = "ready"
    /\ UNCHANGED << EDGE_CSV, RISK_CSV >>

\* Sessions that use tab 6, on the small datasets.
NextAI ==
    \/ Start
    \/ \E a \in DrugInputs : SelectPrimary(a)
    \/ \E b \in DrugInputs : SelectSecondary(b)
    \/ \E api \in ApiOutcomes : Generate(api)

SpecAI == Init /\ [][NextAI]_vars

\* Sessions that move the slider.  The risk tables have up to one row more
\* than nlargest keeps; the rows are named "a", "b", "c", "a", ... and have
\* one of three scores, in tenths.
RiskScores == { 4, 7, 8 }

\* The positions the slider can be moved to.
SliderValues == 4..8

RECURSIVE NamedRows(_, _)
NamedRows(scores, i) ==
    IF i > Len(scores) THEN << >>
    ELSE << RiskRow(QDrugs[((i - 1) % Len(QDrugs)) + 1], scores[i]) >>
         \o NamedRows(scores, i + 1)

RRiskTables == { NamedRows(scores, 1) : scores \in SeqsUpTo(RiskScores, TopRisk + 1) }

InitRisk ==
    /\ EDGE_CSV = File(EdgeTable(<< Str_x >>, << >>, << >>))
    /\ RISK_CSV \in { File(t) : t \in RRiskTables }
    /\ Blank

NextRisk ==
    \/ Start
    \/ \E lo, hi \in SliderValues : SetRiskFilter(lo, hi)

SpecRisk == InitRisk /\ [][NextRisk]_vars

\* Sessions on a server whose data files are replaced and whose cache is
\* cleared: the empty table, one edge, and a chain of two edges through a
\* name that is a side effect in one record and a drug in the next.
CEdgeTables ==
    { << >>,
      << EdgeRow(Str_a, Str_x, FreqNum(10)) >>,
      << EdgeRow(Str_a, Str_x, FreqNum(10)), EdgeRow(Str_x, Str_b, FreqNum(10)) >> }

CRiskTable == << RiskRow(Str_a, 7) >>

InitCentrality ==
    /\ EDGE_CSV \in { File(t) : t \in CEdgeTables }
    /\ RISK_CSV = File(CRiskTable)
    /\ Blank

NextCentrality ==
    \/ Start
    \/ \E d \in DrugInputs : SelectDrug(d)
    \/ \E t \in CEdgeTables : ReplaceFiles(File(t), File(CRiskTable))
    \/ ClearCache
    \/ Reload
    \/ EndSession
    \/ Open

SpecCentrality == InitCentrality /\ [][NextCentrality]_vars

\* Sessions on the graph datasets that look a drug up in tab 1 by a name of
\* the edge table.
NextLookup ==
    \/ Start
    \/ \E d \in GDrugNames : SelectDrug(d)

SpecLookup == InitGraph /\ [][NextLookup]_vars

---------------------------------------------------------------------------
(* Properties of the graph builder                                         *)

\* The rows build_graph is given, and the node pair a row stands for.
BuilderRows == [ i \in (DOMAIN edges_df.rows) \cap (1..HeadLimit) |-> edges_df.rows[i] ]

PairOf(row) == << strip(row.drug_name), strip(row.side_effect) >>

\* Row i is the last of the builder's rows for its pair.
LastOfPair(i) ==
    \A j \in DOMAIN BuilderRows : j > i => PairOf(BuilderRows[j]) # PairOf(BuilderRows[i])

\* C6: overwrite semantics of the graph builder.  For every (trimmed drug,
\* trimmed side effect) pair of the edge records given to the builder, the
\* graph has one edge, and its frequency is the one read from the last record
\* of the pair in table order, not the first.
C6_LastOccurrenceWins ==
    pc = "ready" =>
        \A i \in DOMAIN BuilderRows :
            LastOfPair(i) =>
                /\ has_edge(G, PairOf(BuilderRows[i])[1], PairOf(BuilderRows[i])[2])
                /\ G.edges[PairOf(BuilderRows[i])] = ParseFreq(BuilderRows[i].freq_pct)

\* A pair given twice with two different numbers; the edge has the second.
C6_Witness ==
    /\ pc = "ready"
    /\ Len(BuilderRows) >= 2
    /\ PairOf(BuilderRows[1]) = PairOf(BuilderRows[2])
    /\ BuilderRows[1].freq_pct = FreqNum(10)
    /\ BuilderRows[2].freq_pct = FreqNum(20)
    /\ G.edges[PairOf(BuilderRows[1])] = FloatOf(20)

\* C7: unknown-frequency preservation.  For every edge record whose freq_pct
\* is missing or is not parseable as a number (and that is the last record of
\* its pair), the edge stores the sentinel "N/A" and no float.
C7_UnknownFrequencyIsSentinel ==
    pc = "ready" =>
        \A i \in DOMAIN BuilderRows :
            (LastOfPair(i) /\ BuilderRows[i].freq_pct.t \in { "nan", "text" }) =>
                G.edges[PairOf(BuilderRows[i])] = NA

\* C8 as claimed: the graph has the edge drug -> side_effect if and only if
\* some edge record of the loaded edge table connects the trimmed names.
C8_EdgeIffRecordOfLoadedTable ==
    pc = "ready" =>
        DOMAIN G.edges = { PairOf(edges_df.rows[i]) : i \in DOMAIN edges_df.rows }

\* C8 as amended: the graph has the edge drug -> side_effect if and only if
\* one of the first HeadLimit edge records of the loaded table connects the
\* trimmed names, and both endpoints of every edge are nodes of the graph.
C8_EdgeIffRecordOfFirstRows ==
    pc = "ready" =>
        /\ DOMAIN G.edges =
              { PairOf(edges_df.rows[i]) : i \in (DOMAIN edges_df.rows) \cap (1..HeadLimit) }
        /\ \A e \in DOMAIN G.edges :
              e[1] \in Range(G.nodes) /\ e[2] \in Range(G.nodes)
        /\ DOMAIN G.type = Range(G.nodes)

\* A table longer than the cap whose last record connects a pair that no
\* earlier record connects: the graph has the earlier edges and not this one.
C8_Witness ==
    /\ pc = "ready"
    /\ Len(edges_df.rows) > HeadLimit
    /\ PairOf(edges_df.rows[Len(edges_df.rows)]) \notin DOMAIN G.edges
    /\ DOMAIN G.edges # {}

\* C9: bipartite kinds.  Every node has exactly one kind, every edge goes from
\* a node of kind drug to a node of kind side_effect, and every name a record
\* gives as a drug is a node of kind drug.
C9_BipartiteKinds ==
    pc = "ready" =>
        /\ \A n \in Range(G.nodes) : G.type[n] \in { "drug", "side_effect" }
        /\ \A e \in DOMAIN G.edges :
              G.type[e[1]] = "drug" /\ G.type[e[2]] = "side_effect"
        /\ \A i \in DOMAIN BuilderRows : G.type[strip(BuilderRows[i].drug_name)] = "drug"

---------------------------------------------------------------------------
(* Properties of the safer-alternatives search                             *)

\* The side effects the edge table lists for a drug, and the drugs it lists.
EffectsInTable(d) ==
    { edges_df.rows[i].side_effect :
        i \in { k \in DOMAIN edges_df.rows : edges_df.rows[k].drug_name = d } }

DrugsInTable == { edges_df.rows[i].drug_name : i \in DOMAIN edges_df.rows }

SharedWithQuery(other) == EffectsInTable(drug) \cap EffectsInTable(other)

\* The drugs the search is to return for the drug selected in tab 1.
SaferThanQuery ==
    { other \in DrugsInTable \ { drug } :
        /\ SharedWithQuery(other) # {}
        /\ other \in DOMAIN risk_map
        /\ risk_map[other] < risk_map[drug] }

\* C1: safer alternatives of a query drug that has a risk score.  The rows
\* name exactly the other drugs of the side-effect index that share at least
\* one distinct side effect with the query drug and have a strictly lower risk
\* score, each once; a drug without a risk-map entry is not among them; a
\* row's overlap count is the number of distinct shared side effects and its
\* risk reduction is query risk minus other risk, which is positive.
C1_SaferAlternativesExact ==
    (pc = "ready" /\ drug # EmptyStr /\ drug \in DOMAIN risk_map) =>
        /\ { tab2.rows[i].Drug : i \in DOMAIN tab2.rows } = SaferThanQuery
        /\ Len(tab2.rows) = Cardinality(SaferThanQuery)
        /\ \A i \in DOMAIN tab2.rows :
              LET row == tab2.rows[i]
              IN  /\ row.Drug # drug
                  /\ row.Drug \in DOMAIN risk_map
                  /\ row.SharedEffects = Cardinality(SharedWithQuery(row.Drug))
                  /\ row.RiskScore = risk_map[row.Drug]
                  /\ row.RiskReduction = risk_map[drug] - risk_map[row.Drug]
                  /\ row.RiskReduction > 0

\* A query with one safer alternative returned, sharing two side effects with
\* it, and one drug left out that shares a side effect with the query drug
\* and has no score.
C1_Witness ==
    /\ pc = "ready"
    /\ drug # EmptyStr
    /\ drug \in DOMAIN risk_map
    /\ tab2.status = "table"
    /\ Len(tab2.rows) = 1
    /\ tab2.rows[1].SharedEffects = 2
    /\ \E o \in DrugsInTable \ { drug } : SharedWithQuery(o) # {} /\ o \notin DOMAIN risk_map

\* C2: ordering of the safer-alternatives rows.  The rows are in descending
\* order of overlap count, rows of equal overlap count in descending order of
\* risk reduction; a query that finds nothing ends in the "none found"
\* message with no rows and without an exception.
C2_RowsOrdered ==
    (pc = "ready" /\ drug # EmptyStr /\ drug \in DOMAIN risk_map) =>
        /\ \A i, j \in DOMAIN tab2.rows :
              i < j =>
                \/ tab2.rows[i].SharedEffects > tab2.rows[j].SharedEffects
                \/ /\ tab2.rows[i].SharedEffects = tab2.rows[j].SharedEffects
                   /\ tab2.rows[i].RiskReduction >= tab2.rows[j].RiskReduction
        /\ (drug \in DrugsInTable /\ SaferThanQuery = {}) =>
              (tab2.status = "none_found" /\ tab2.rows = << >> /\ tab2.error = "none")
        /\ (drug \in DrugsInTable /\ SaferThanQuery # {}) => tab2.status = "table"

\* Two alternatives of equal overlap count, put in the order of their risk
\* reductions, which is not the order the index lists them in.
C2_Witness ==
    /\ pc = "ready"
    /\ tab2.status = "table"
    /\ Len(tab2.rows) = 2
    /\ tab2.rows[1].SharedEffects = tab2.rows[2].SharedEffects
    /\ tab2.rows[1].RiskReduction > tab2.rows[2].RiskReduction
    /\ StrLess(tab2.rows[2].Drug, tab2.rows[1].Drug)

---------------------------------------------------------------------------
(* Properties of the polypharmacy analysis                                 *)

\* The score a drug counts with: its risk score, or 0 without one.
ScoreOrZero(d) == IF d \in DOMAIN risk_map THEN risk_map[d] ELSE 0

RECURSIVE SumOver(_)
SumOver(S) ==
    IF S = {} THEN 0
    ELSE LET d == CHOOSE x \in S : TRUE IN ScoreOrZero(d) + SumOver(S \ { d })

Selected == Range(selected_drugs)

\* C3: polypharmacy aggregates of a selection of two or more drugs.  The
\* combined effects are the union of the drugs' side-effect sets, the overlap
\* is the intersection of all of them, the combined score is the sum of the
\* scores, the average is that sum over the number of drugs and the maximum
\* is the largest score of a selected drug.
C3_PolypharmacyAggregates ==
    (pc = "ready" /\ Len(selected_drugs) >= 2 /\ tab2.error = "none") =>
        /\ tab4.status = "analysis"
        /\ tab4.combined_effects = UNION { EffectsInTable(d) : d \in Selected }
        /\ tab4.overlap_effects =
              { e \in UNION { EffectsInTable(d) : d \in Selected } :
                  \A d \in Selected : e \in EffectsInTable(d) }
        /\ tab4.overlap_count = Cardinality(tab4.overlap_effects)
        /\ tab4.combined_score = SumOver(Selected)
        /\ tab4.avg_num = SumOver(Selected)
        /\ tab4.avg_den = Cardinality(Selected)
        /\ \E d \in Selected : tab4.max_score = ScoreOrZero(d)
        /\ \A d \in Selected : tab4.max_score >= ScoreOrZero(d)

\* Two drugs with two side effects each, one of them shared, and two
\* different scores.
C3_Witness ==
    /\ pc = "ready"
    /\ tab4.status = "analysis"
    /\ Len(selected_drugs) = 2
    /\ Cardinality(tab4.combined_effects) = 2
    /\ Cardinality(tab4.overlap_effects) = 1
    /\ \A d \in Selected : d \in DOMAIN risk_map
    /\ tab4.max_score * 2 > tab4.combined_score

\* C4: risk level of the average score avg_num / avg_den, in tenths.  The
\* level is "High" iff the average is above 0.7, "Medium" iff it is above 0.4
\* and at most 0.7, and "Low" otherwise.
C4_RiskLevelBands ==
    (pc = "ready" /\ tab4.status = "analysis") =>
        /\ tab4.risk_level = "High" <=> tab4.avg_num > 7 * tab4.avg_den
        /\ tab4.risk_level = "Medium" <=>
              (tab4.avg_num > 4 * tab4.avg_den /\ tab4.avg_num <= 7 * tab4.avg_den)
        /\ tab4.risk_level = "Low" <=> tab4.avg_num <= 4 * tab4.avg_den

\* An average of exactly 0.7, which is "Medium".
C4_Witness ==
    /\ pc = "ready"
    /\ tab4.status = "analysis"
    /\ tab4.avg_num = 7 * tab4.avg_den
    /\ tab4.risk_level = "Medium"

\* C5: a selection of two or more drugs with a drug that has no risk-map
\* entry.  The whole analysis completes: the aggregates are rendered with the
\* drug counted as 0, the risk comparison has a trace for every selected drug
\* and no exception is raised.
C5_MissingScoreCompletes ==
    (/\ pc = "ready"
     /\ Len(selected_drugs) >= 2
     /\ tab2.error = "none"
     /\ \E d \in Selected : d \notin DOMAIN risk_map) =>
        /\ tab4.status = "analysis"
        /\ tab4.combined_score = SumOver(Selected)
        /\ \A d \in Selected : tab4.max_score >= ScoreOrZero(d)
        /\ Len(tab4.traces) = Len(selected_drugs)
        /\ raised = "none"

---------------------------------------------------------------------------
(* Properties of a run without the data files                              *)

---------------------------------------------------------------------------
(* Properties of the centrality ranking                                    *)

\* C11: empty-graph centrality.  When the dataset is empty, so that the graph
\* has no node, the centrality computation and the ranking of tab 5 complete
\* without raising: the mapping is empty and both top lists are empty.
C11_EmptyGraphRanks ==
    (pc = "ready" /\ G.nodes = << >> /\ tab5.status # "not_run") =>
        /\ centrality = Stored(<< >>)
        /\ tab5.status = "ranked"
        /\ tab5.drug_top = << >>
        /\ tab5.se_top = << >>
        /\ tab5.error = "none"
        /\ raised = "none"


\* The keys of the mapping of the session state, in its order.
CentralityKeys == [ i \in DOMAIN centrality.items |-> centrality.items[i].Node ]

\* C12: centrality cache freshness.  After any sequence of dataset reloads,
\* graph rebuilds and runs of tab 5, the mapping tab 5 ranks is the one
\* computed from the current graph: its keys are exactly the nodes of the
\* current graph, and a mapping of an earlier graph is never served.
C12_MappingOfCurrentGraph ==
    (pc = "ready" /\ tab5.status # "not_run") =>
        /\ centrality.set
        /\ CentralityKeys = G.nodes

\* C13: centrality cache hit.  Within a session, a run of tab 5 on the
\* identical graph that finds a stored mapping does not execute the
\* betweenness computation again: the stored mapping is the one it ranks.
C13_StoredResultServed ==
    [][ (/\ centrality.set
         /\ G' = G
         /\ << EDGE_CSV', RISK_CSV' >> = << EDGE_CSV, RISK_CSV >>
         /\ pc' = "ready"
         /\ tab5'.status # "not_run")
        => (/\ tab5'.source = "session_state"
            /\ computed' = computed
            /\ centrality' = centrality) ]_vars

\* A later run of a session served from the session state, the body of
\* compute_centrality executed once.
C13_Witness ==
    /\ pc = "ready"
    /\ tab5.status = "ranked"
    /\ tab5.source = "session_state"
    /\ Len(computed) = 1
    /\ drug # EmptyStr

\* C14: centrality determinism.  Two executions of the centrality computation
\* on the same graph return the same mapping, also for a graph with more nodes
\* than the limit of sampled sources.
C14_SameGraphSameMapping ==
    \A i, j \in DOMAIN computed :
        computed[i].graph = computed[j].graph => computed[i].items = computed[j].items

\* The smaller of two numbers.
Smaller(m, n) == IF m < n THEN m ELSE n

\* C19 as claimed: the first attempt is the sampled computation with
\* k = min(limit, node count) sources; when it raises, the exact computation
\* is run and its result returned.
C19_SampleSizeIsNodeCount ==
    (pc = "ready" /\ tab5.source = "computed") =>
        /\ tab5.k = Smaller(PivotLimit, Len(G.nodes))
        /\ tab5.sampled_raised => centrality = Stored(betweenness_exact(G))

\* C19 as amended: the first attempt is the sampled computation with
\* k = min(limit, max(1, node count)) sources.  It raises exactly when the
\* graph has fewer than k nodes; the exact computation is then run, its result
\* is the mapping returned and stored, and the error of the attempt is not
\* the exception of the run.  Otherwise the result is one of the sampled ones.
C19_FailoverToExact ==
    (pc = "ready" /\ tab5.source = "computed") =>
        /\ tab5.k = Smaller(PivotLimit, IF Len(G.nodes) > 1 THEN Len(G.nodes) ELSE 1)
        /\ tab5.sampled_raised <=> tab5.k > Len(G.nodes)
        /\ tab5.sampled_raised =>
              /\ centrality = Stored(betweenness_exact(G))
              /\ centrality_cache = centrality
        /\ ~tab5.sampled_raised => centrality.items \in betweenness_sampled(G, tab5.k)
        /\ raised \in { "none", "KeyError:826", "KeyError:827" }

\* The empty graph: the attempt with one source raised, the exact computation
\* returned the empty mapping.
C19_Witness ==
    /\ pc = "ready"
    /\ tab5.source = "computed"
    /\ tab5.k = 1
    /\ tab5.sampled_raised
    /\ G.nodes = << >>
    /\ centrality = Stored(<< >>)


---------------------------------------------------------------------------
(* Properties of the hypothesis request                                    *)

\* C15: AI hypothesis isolation.  A run in which the hypothesis button was
\* clicked, whether the request gives a response or raises in the client
\* construction or in the generate call, leaves the graph, the risk map, the
\* side-effect index and the stored centrality as they were; a response is
\* shown, a failure ends in the explicit failure message, no exception ends
\* the run and the other tabs show what they showed before.
C15_HypothesisRequestIsolated ==
    [][ tab6'.clicked =>
          /\ G' = G
          /\ risk_map' = risk_map
          /\ side_effect_lookup' = side_effect_lookup
          /\ centrality' = centrality
          /\ centrality_cache' = centrality_cache
          /\ << tab1', tab2', tab3', tab4' >> = << tab1, tab2, tab3, tab4 >>
          /\ raised' = "none"
          /\ tab6'.error = "none"
          /\ tab6'.request = "response" =>
                tab6'.status = "generated" /\ tab6'.message = "response text"
          /\ tab6'.request \in { "client_raises", "generate_raises" } =>
                tab6'.status = "failed" /\ tab6'.message = "AI generation failed" ]_vars

\* A request whose client construction raised: the failure message is shown
\* and the run completed.
C15_Witness ==
    /\ pc = "ready"
    /\ tab6.clicked
    /\ tab6.request = "client_raises"
    /\ tab6.status = "failed"
    /\ tab6.risk_a # tab6.risk_b
    /\ raised = "none"
    /\ centrality.set


---------------------------------------------------------------------------
(* Properties of the risk range filter                                     *)

\* The index labels of the rows of the risk table within the slider's range.
RowsInRange ==
    { i \in DOMAIN risk_df.rows :
        /\ risk_filter[1] <= risk_df.rows[i].risk_score
        /\ risk_df.rows[i].risk_score <= risk_filter[2] }

\* Row r is listed before row t by score, descending, and by table order
\* among equal scores.
RanksBefore(r, t) ==
    \/ r.risk_score > t.risk_score
    \/ r.risk_score = t.risk_score /\ r.index < t.index

\* C16: risk range filter (min, max).  The result is exactly the rows of the
\* risk table with min <= risk_score <= max, both bounds inclusive, in table
\* order; the count is the number of those rows; the highest-risk list is the
\* at most 5 rows of the result with the largest scores, in descending order,
\* rows of equal scores in table order.
C16_RangeFilterExact ==
    (pc = "ready" /\ tab3.status = "rendered") =>
        /\ { tab3.filtered[k].index : k \in DOMAIN tab3.filtered } = RowsInRange
        /\ Len(tab3.filtered) = Cardinality(RowsInRange)
        /\ \A k \in DOMAIN tab3.filtered :
              /\ tab3.filtered[k].drug_name = risk_df.rows[tab3.filtered[k].index].drug_name
              /\ tab3.filtered[k].risk_score = risk_df.rows[tab3.filtered[k].index].risk_score
        /\ \A j, k \in DOMAIN tab3.filtered :
              j < k => tab3.filtered[j].index < tab3.filtered[k].index
        /\ tab3.count = Cardinality(RowsInRange)
        /\ Len(tab3.top) = (IF tab3.count < 5 THEN tab3.count ELSE 5)
        /\ Range(tab3.top) \subseteq Range(tab3.filtered)
        /\ \A j, k \in DOMAIN tab3.top : j < k => RanksBefore(tab3.top[j], tab3.top[k])
        /\ \A r \in Range(tab3.filtered) \ Range(tab3.top) :
              \A t \in Range(tab3.top) : RanksBefore(t, r)

\* Six rows in the range, one of them at the lower bound and one at the upper
\* bound; the list has five of them, of at least two different scores, and
\* leaves out a row that has the score of the last row it lists.
C16_Witness ==
    /\ pc = "ready"
    /\ tab3.status = "rendered"
    /\ tab3.count = 6
    /\ Len(tab3.top) = 5
    /\ \E k \in DOMAIN tab3.filtered : tab3.filtered[k].risk_score = risk_filter[1]
    /\ \E k \in DOMAIN tab3.filtered : tab3.filtered[k].risk_score = risk_filter[2]
    /\ tab3.top[1].risk_score > tab3.top[5].risk_score
    /\ \E r \in Range(tab3.filtered) \ Range(tab3.top) :
          r.risk_score = tab3.top[5].risk_score

\* C17: empty-range filter.  When no risk row is within the requested range,
\* or the risk table is empty, the result is empty and its count is 0, no
\* mean is computed or shown, no highest-risk list is produced, and the run
\* goes on to the next tab without an exception.
C17_EmptyRangeIsEmptyResult ==
    (pc = "ready" /\ tab3.status = "rendered" /\ RowsInRange = {}) =>
        /\ tab3.filtered = << >>
        /\ tab3.count = 0
        /\ ~tab3.avg_shown
        /\ tab3.top = << >>
        /\ tab3.info <=> risk_df.rows = << >>
        /\ tab4.status # "not_run"
        /\ raised = "none"

\* A risk table with rows, none of them in the range the slider is set to.
C17_Witness ==
    /\ pc = "ready"
    /\ tab3.status = "rendered"
    /\ Len(risk_df.rows) >= 2
    /\ risk_filter[1] <= risk_filter[2]
    /\ RowsInRange = {}
    /\ tab3.count = 0


---------------------------------------------------------------------------
(* Properties of the drug profile                                          *)

\* The rows of the edge table that are the first of the selected drug with
\* their side effect.
FirstSeenRows ==
    { i \in DOMAIN edges_df.rows :
        /\ edges_df.rows[i].drug_name = drug
        /\ \A j \in 1..(i - 1) :
              ~(/\ edges_df.rows[j].drug_name = drug
                /\ edges_df.rows[j].side_effect = edges_df.rows[i].side_effect) }

\* C18: drug profile of the selected drug.  A drug that is absent from the
\* risk map gives the not-found message; any other drug gives its risk score
\* and its side effects, duplicates removed, in the order in which the rows of
\* the edge table first name them; a drug of the risk map without an entry in
\* the side-effect index gives the empty list and no error.
C18_DrugProfile ==
    (pc = "ready" /\ drug # EmptyStr) =>
        /\ drug \notin DOMAIN risk_map => tab1.status = "not_found"
        /\ drug \in DOMAIN risk_map =>
              /\ tab1.status = "profile"
              /\ tab1.score = risk_map[drug]
              /\ Len(tab1.se_list) = Cardinality(FirstSeenRows)
              /\ \A k \in DOMAIN tab1.se_list :
                    \E i \in FirstSeenRows :
                        /\ tab1.se_list[k] = edges_df.rows[i].side_effect
                        /\ Cardinality({ j \in FirstSeenRows : j < i }) = k - 1
              /\ drug \notin DOMAIN side_effect_lookup =>
                    (tab1.se_list = << >> /\ tab2.error = "none")

\* A drug with a score whose two rows name the same side effect: the profile
\* lists it once.
C18_Witness ==
    /\ pc = "ready"
    /\ drug # EmptyStr
    /\ tab1.status = "profile"
    /\ drug \in DOMAIN side_effect_lookup
    /\ Len(side_effect_lookup[drug]) = 2
    /\ Len(tab1.se_list) = 1


---------------------------------------------------------------------------
(* Properties of the names of the graph and of the index                   *)

\* C20: graph/index name consistency.  For an edge table of at most the
\* builder's row cap, every drug key d of the side-effect index is a drug node
\* of the graph and for every side effect s listed under d the graph has the
\* edge d -> s; the network of a drug looked up by its index name therefore
\* finds the edge and its frequency for every side effect it draws, also for
\* names that carry surrounding white space in the table.  (The kind of a
\* node that a record names as a side effect as well is left open here.)
C20_IndexNamesAreGraphNames ==
    (pc = "ready" /\ Len(edges_df.rows) <= HeadLimit) =>
        /\ \A d \in DOMAIN side_effect_lookup :
              /\ d \in Range(G.nodes)
              /\ (\A i \in DOMAIN BuilderRows : strip(BuilderRows[i].side_effect) # d) =>
                    G.type[d] = "drug"
              /\ \A i \in DOMAIN side_effect_lookup[d] :
                    has_edge(G, d, side_effect_lookup[d][i])
        /\ \A i \in DOMAIN tab1_network :
              /\ tab1_network[i].in_graph
              /\ tab1_network[i].frequency = G.edges[<< drug, tab1_network[i].se >>]

=============================================================================
